---- MODULE Spec2Model ----
(***************************************************************************)
(* Model of the voxel demo in src/main.rs: the Loading -> Run application  *)
(* state machine (main, load_assets, check_loaded), the grid generator and *)
(* the quad loop of setup, and ao_convert.                                 *)
(*                                                                         *)
(* Units.  Floats are kept exact as integers:                              *)
(*   - a UV coordinate is its numerator over texture_size (1024), so the   *)
(*     library's 0.0 / 1.0 are 0 / texture_size and 9/16 is 576;           *)
(*   - an AO colour channel is in hundredths (0.75 is 75);                 *)
(*   - positions and normals are integer triples (voxel_size is 1.0).      *)
(*                                                                         *)
(* The block_mesh crate (visible_block_faces, OrientedBlockFace,           *)
(* RIGHT_HANDED_Y_UP_CONFIG) and ndshape's linearize are dependencies of   *)
(* the program and are not part of src/; their definitions below follow    *)
(* the crate's behaviour and are marked as such in the section headers.    *)
(***************************************************************************)
EXTENDS Integers, Sequences, FiniteSets, TLC

VARIABLES
    state,       \* AppState: "Loading" or "Run"
    loadState,   \* asset_server.get_load_state(&handle.0)
    loading,     \* the Loading(handle) resource: "none" or "handle"
    pc,          \* which system / which part of setup runs next
    dim,         \* extent of SampleShape on each axis
    voxels,      \* the voxel array, indexed by linear index 0..dim^3-1
    buffer,      \* UnitQuadBuffer.groups: six sequences of quads
    g,           \* group/face cursor of the zip loop, 1..7
    q,           \* quad cursor inside group g
    indices,     \* Vec<u32>
    positions,   \* Vec<[f32;3]>
    normals,     \* Vec<[f32;3]>
    tex_coords,  \* Vec<[f32;2]>
    ao,          \* Vec<u8>
    finalao,     \* Vec<[f32;4]>, the result of ao_convert
    capacity,    \* the num_vertices argument last passed to ao_convert
    printed,     \* number of "What" lines printed by the fallback arm
    emitted,     \* history: the (face index, minimum) of each loop iteration so far
    setupRuns,   \* how many times setup has started
    camera       \* "none", "spawned" (setup) or "orbit" (camera_rotation_system)

vars == <<state, loadState, loading, pc, dim, voxels, buffer, g, q, indices,
          positions, normals, tex_coords, ao, finalao, capacity, printed,
          emitted, setupRuns, camera>>

meshVars == <<buffer, g, q, indices, positions, normals, tex_coords, ao,
              finalao, capacity, printed, emitted>>

(***************************************************************************)
(* Bounds of the model                                                     *)
(***************************************************************************)
\* Largest voxel type code in the grids of SpecMesh (the demo's generator
\* only draws 0..2; codes above 2 reach the fallback arm of the UV match).
MaxType == 3
\* Largest number of non-Empty voxels in a grid of SpecMesh.
MaxFilled == 2
\* Longest AO sample vector handed to ao_convert in SpecAo.
MaxAoLen == 3
\* Largest num_vertices passed to ao_convert in SpecAo.
MaxCap == 2

\* Extents modelled for SampleShape.  The demo uses 22 on each axis
\* (a 20^3 interior); 3 gives a single interior voxel and 4 a 2x2x2
\* interior, which is the smallest extent where voxels have neighbours.
Dims == {3, 4}

(***************************************************************************)
(* Small helpers                                                           *)
(***************************************************************************)
Add3(a, b) == <<a[1] + b[1], a[2] + b[2], a[3] + b[3]>>
Scale3(k, a) == <<k * a[1], k * a[2], k * a[3]>>

RECURSIVE Flatten(_)
Flatten(ss) == IF ss = <<>> THEN <<>> ELSE Head(ss) \o Flatten(Tail(ss))

(***************************************************************************)
(* ndshape::ConstShape3u32<D, D, D>  (dependency)                          *)
(***************************************************************************)
\* SampleShape::linearize([x, y, z]) = x + D*y + D*D*z
Linearize(p, d) == p[1] + d * p[2] + d * d * p[3]

\* SampleShape::SIZE
ShapeSize(d) == d * d * d

\* The interior extent visible_block_faces iterates: [min, max] padded by
\* -1, visited z-outer, y, x-inner (ascending linear index).
InteriorSeq(d) ==
    LET m == d - 2
    IN  [k \in 1..(m * m * m) |->
            <<1 + ((k - 1) % m), 1 + (((k - 1) \div m) % m), 1 + ((k - 1) \div (m * m))>>]

InteriorIdx(d) == {Linearize(InteriorSeq(d)[k], d) : k \in 1..Len(InteriorSeq(d))}

(***************************************************************************)
(* Voxel (src/main.rs)                                                     *)
(***************************************************************************)
EMPTY_VOXEL == 0
A1_VOXEL == 1
A2_VOXEL == 2

\* A plausible slip: the Translucent and Opaque arms exchanged.
get_visibility_swapped(v) ==
    IF v = EMPTY_VOXEL THEN "Empty"
    ELSE IF v = A1_VOXEL THEN "Opaque"
    ELSE "Translucent"

\* impl MeshableVoxel for Voxel
get_visibility(v) ==
    IF v = EMPTY_VOXEL THEN "Empty"
    ELSE IF v = A1_VOXEL THEN "Translucent"
    ELSE "Opaque"

(***************************************************************************)
(* block_mesh  (dependency)                                                *)
(***************************************************************************)
AxisX == <<1, 0, 0>>
AxisY == <<0, 1, 0>>
AxisZ == <<0, 0, 1>>

\* OrientedBlockFace::new(n_sign, permutation): n, u, v are the axes of the
\* permutation in order; psign is the parity of the permutation.
Face(n_sign, n, u, v, psign) ==
    [n_sign |-> n_sign, n |-> n, u |-> u, v |-> v, psign |-> psign]

\* RIGHT_HANDED_Y_UP_CONFIG.faces: -Xzy, -Yzx, -Zxy, +Xzy, +Yzx, +Zxy
faces ==
    << Face(-1, AxisX, AxisZ, AxisY, -1),
       Face(-1, AxisY, AxisZ, AxisX, 1),
       Face(-1, AxisZ, AxisX, AxisY, 1),
       Face(1, AxisX, AxisZ, AxisY, -1),
       Face(1, AxisY, AxisZ, AxisX, 1),
       Face(1, AxisZ, AxisX, AxisY, 1) >>

\* RIGHT_HANDED_Y_UP_CONFIG.u_flip_face
u_flip_face == AxisX

signed_normal(face) == Scale3(face.n_sign, face.n)

\* The voxel read through the shape at point p.
VoxelAt(vx, d, p) == vx[Linearize(p, d)]

\* visible_block_faces: the per-face test of the 3x3x3 kernel.  The
\* neighbour index is p_index.wrapping_add(stride of the signed normal),
\* which is the linear index of p + signed normal.
face_needs_mesh(p_voxel, neighbor_voxel) ==
    LET nv == get_visibility(neighbor_voxel)
    IN  IF nv = "Empty" THEN TRUE
        ELSE IF nv = "Translucent" THEN get_visibility(p_voxel) = "Opaque"
        ELSE FALSE

\* UnitQuad { minimum }
UnitQuad(p) == [minimum |-> p]

\* visible_block_faces(&voxels, &shape, [0;3], [D-1;3], &faces, &mut buffer)
visible_block_faces(vx, d) ==
    [f \in 1..6 |->
        LET keep(p) ==
                /\ get_visibility(VoxelAt(vx, d, p)) # "Empty"
                /\ face_needs_mesh(VoxelAt(vx, d, p),
                                   VoxelAt(vx, d, Add3(p, signed_normal(faces[f]))))
            kept == SelectSeq(InteriorSeq(d), keep)
        IN  [k \in 1..Len(kept) |-> UnitQuad(kept[k])]]

\* UnitQuadBuffer::num_quads
num_quads(buf) == Len(Flatten(buf))

\* quad_indices(start, counter_clockwise)
quad_mesh_indices(face, start) ==
    IF face.n_sign * face.psign > 0
    THEN <<start, start + 1, start + 2, start + 1, start + 3, start + 2>>
    ELSE <<start, start + 2, start + 1, start + 1, start + 2, start + 3>>

\* quad_mesh_positions(&quad, 1.0): the four corners of the unit quad
quad_mesh_positions(face, quad) ==
    LET minu_minv == IF face.n_sign > 0
                     THEN Add3(quad.minimum, face.n)
                     ELSE quad.minimum
    IN  << minu_minv,
           Add3(minu_minv, face.u),
           Add3(minu_minv, face.v),
           Add3(Add3(minu_minv, face.u), face.v) >>

\* quad_mesh_normals
quad_mesh_normals(face) ==
    <<signed_normal(face), signed_normal(face), signed_normal(face), signed_normal(face)>>

\* tex_coords(u_flip_face, flip_v, &quad) for a unit quad, in units of
\* 1/one (the caller passes the integer that stands for 1.0)
lib_tex_coords(face, flip_axis, flip_v, one) ==
    LET flip_u == IF face.n_sign < 0 THEN flip_axis # face.n ELSE flip_axis = face.n
    IN  IF ~flip_u /\ ~flip_v THEN << <<0, 0>>, <<one, 0>>, <<0, one>>, <<one, one>> >>
        ELSE IF flip_u /\ ~flip_v THEN << <<one, 0>>, <<0, 0>>, <<one, one>>, <<0, one>> >>
        ELSE IF ~flip_u /\ flip_v THEN << <<0, one>>, <<one, one>>, <<0, 0>>, <<one, 0>> >>
        ELSE << <<one, one>>, <<0, one>>, <<one, 0>>, <<0, 0>> >>

\* quad_mesh_ao(&quad): one sample per corner, 3 = unoccluded, 0 = both
\* sides occluded; the sides and the corner are read in the layer the face
\* looks into.
AoCornerSigns == << <<-1, -1>>, <<1, -1>>, <<-1, 1>>, <<1, 1>> >>

quad_mesh_ao(face, quad, vx, d) ==
    LET np == Add3(quad.minimum, signed_normal(face))
        solid(p) == IF get_visibility(VoxelAt(vx, d, p)) # "Empty" THEN 1 ELSE 0
        sample(s) ==
            LET side1 == solid(Add3(np, Scale3(s[1], face.u)))
                side2 == solid(Add3(np, Scale3(s[2], face.v)))
                corner == solid(Add3(Add3(np, Scale3(s[1], face.u)), Scale3(s[2], face.v)))
            IN  IF side1 = 1 /\ side2 = 1 THEN 0 ELSE 3 - (side1 + side2 + corner)
    IN  [j \in 1..4 |-> sample(AoCornerSigns[j])]

(***************************************************************************)
(* ao_convert (src/main.rs)                                                *)
(***************************************************************************)
\* The match of ao_convert, channels in hundredths.
ao_colour(value) ==
    IF value = 0 THEN <<10, 10, 10, 100>>
    ELSE IF value = 1 THEN <<30, 30, 30, 100>>
    ELSE IF value = 2 THEN <<50, 50, 50, 100>>
    ELSE IF value = 3 THEN <<75, 75, 75, 100>>
    ELSE <<100, 100, 100, 100>>

RECURSIVE ao_convert_capped(_, _)
\* A plausible slip: num_vertices treated as a limit on the result.
ao_convert_capped(samples, num_vertices) ==
    IF samples = <<>> \/ num_vertices = 0 THEN <<>>
    ELSE <<ao_colour(Head(samples))>> \o ao_convert_capped(Tail(samples), num_vertices - 1)

RECURSIVE ao_convert_per_quad(_, _)
\* A plausible slip: each sample taken for a quad and given four colours.
ao_convert_per_quad(samples, num_vertices) ==
    IF samples = <<>> THEN <<>>
    ELSE <<ao_colour(Head(samples)), ao_colour(Head(samples)),
           ao_colour(Head(samples)), ao_colour(Head(samples))>>
         \o ao_convert_per_quad(Tail(samples), num_vertices)

RECURSIVE ao_convert_loop(_)
\* for value in ao { res.extend_from_slice(&[colour]) }
ao_convert_loop(samples) ==
    IF samples = <<>> THEN <<>>
    ELSE <<ao_colour(Head(samples))>> \o ao_convert_loop(Tail(samples))

\* ao_convert(ao, num_vertices): num_vertices is only the initial capacity.
ao_convert(samples, num_vertices) == ao_convert_loop(samples)

(***************************************************************************)
(* setup (src/main.rs)                                                     *)
(***************************************************************************)
\* The largest value of a u8 AO sample.
U8Max == 255

tile_size == 64
texture_size == 1024

\* A plausible slip: an inclusive range, gen_range(0..=3).
GenRangeInclusive == 0..3

\* gen_range(0..3)
GenRange == 0..2

\* The four corners written by one arm of the match, as numerators over
\* texture_size: ((tile_offset - 1) * tile_size) and (tile_offset * tile_size).
TileSquare(tile_offset) ==
    LET lo == (tile_offset - 1) * tile_size
        hi == tile_offset * tile_size
    IN  << <<lo, lo>>, <<hi, lo>>, <<lo, hi>>, <<hi, hi>> >>

\* A plausible slip: the Voxel(2) arm copied from Voxel(1) with its
\* tile_offset left at 10.
face_tex_for_copied(voxel_type, face_tex) ==
    IF voxel_type = 1 THEN TileSquare(10)
    ELSE IF voxel_type = 2 THEN TileSquare(10)
    ELSE face_tex

\* A plausible slip: the two tile offsets exchanged.
face_tex_for_exchanged(voxel_type, face_tex) ==
    IF voxel_type = 1 THEN TileSquare(16)
    ELSE IF voxel_type = 2 THEN TileSquare(10)
    ELSE face_tex

\* A plausible slip: the fallback arm clearing the coordinates.
face_tex_for_zeroed(voxel_type, face_tex) ==
    IF voxel_type = 1 THEN TileSquare(10)
    ELSE IF voxel_type = 2 THEN TileSquare(16)
    ELSE << <<0, 0>>, <<0, 0>>, <<0, 0>>, <<0, 0>> >>

\* match voxel_type { Voxel(1) => .., Voxel(2) => .., _ => println!("What") }
face_tex_for(voxel_type, face_tex) ==
    IF voxel_type = 1 THEN TileSquare(10)
    ELSE IF voxel_type = 2 THEN TileSquare(16)
    ELSE face_tex

\* Whether the match takes the fallback arm.
is_fallback(voxel_type) == voxel_type # 1 /\ voxel_type # 2

\* A plausible slip: the index base taken from the index buffer.
index_base_from_indices == Len(indices)

\* positions.len() as u32, read before this quad's positions are appended
index_base == Len(positions)

\* A plausible slip: the groups zipped with the faces in reverse.
zip_face_reversed(i) == faces[7 - i]

\* buffer.groups.into_iter().zip(faces.into_iter()): group i goes with face i
zip_face(i) == faces[i]

EmptyMesh ==
    /\ buffer = [f \in 1..6 |-> <<>>]
    /\ g = 1
    /\ q = 1
    /\ indices = <<>>
    /\ positions = <<>>
    /\ normals = <<>>
    /\ tex_coords = <<>>
    /\ ao = <<>>
    /\ finalao = <<>>
    /\ capacity = 0
    /\ printed = 0
    /\ emitted = <<>>

AllEmpty(d) == [i \in 0..(ShapeSize(d) - 1) |-> EMPTY_VOXEL]

\* A grid that is Empty outside the cells of `cells`, with the types `f`.
GridOf(d, cells, f) ==
    [i \in 0..(ShapeSize(d) - 1) |-> IF i \in cells THEN f[i] ELSE EMPTY_VOXEL]

\* Lines 119-131: the array starts all Voxel(0) and every interior voxel is
\* drawn from gen_range(0..3).
Generate ==
    /\ pc = "setup"
    /\ \E f \in [InteriorIdx(dim) -> GenRange] :
          voxels' = GridOf(dim, InteriorIdx(dim), f)
    /\ setupRuns' = setupRuns + 1
    /\ pc' = "faces"
    /\ UNCHANGED <<state, loadState, loading, dim, camera>>
    /\ UNCHANGED meshVars

\* Lines 133-151: the library fills the buffer; the five vectors start empty.
VisibleBlockFaces ==
    /\ pc = "faces"
    /\ buffer' = visible_block_faces(voxels, dim)
    /\ g' = 1
    /\ q' = 1
    /\ indices' = <<>>
    /\ positions' = <<>>
    /\ normals' = <<>>
    /\ tex_coords' = <<>>
    /\ ao' = <<>>
    /\ pc' = "quads"
    /\ UNCHANGED <<state, loadState, loading, dim, voxels, finalao, capacity,
                   printed, emitted, setupRuns, camera>>

\* Lines 153-193: one iteration of the inner loop.
EmitQuad ==
    /\ pc = "quads"
    /\ g <= 6
    /\ q <= Len(buffer[g])
    /\ LET face == zip_face(g)
           quad == buffer[g][q]
           lib_tex == lib_tex_coords(face, u_flip_face, TRUE, texture_size)
           voxel_type == voxels[Linearize(quad.minimum, dim)]
       IN  /\ indices' = indices \o quad_mesh_indices(face, index_base)
           /\ positions' = positions \o quad_mesh_positions(face, quad)
           /\ normals' = normals \o quad_mesh_normals(face)
           /\ ao' = ao \o quad_mesh_ao(face, quad, voxels, dim)
           /\ tex_coords' = tex_coords \o face_tex_for(voxel_type, lib_tex)
           /\ printed' = IF is_fallback(voxel_type) THEN printed + 1 ELSE printed
    /\ emitted' = Append(emitted, [face |-> g, minimum |-> buffer[g][q].minimum])
    /\ q' = q + 1
    /\ UNCHANGED <<state, loadState, loading, pc, dim, voxels, buffer, g, finalao,
                   capacity, setupRuns, camera>>

\* Line 152: the zip moves to the next (group, face) pair, or ends.
NextGroup ==
    /\ pc = "quads"
    /\ g <= 6
    /\ q > Len(buffer[g])
    /\ g' = g + 1
    /\ q' = 1
    /\ pc' = IF g = 6 THEN "finish" ELSE "quads"
    /\ UNCHANGED <<state, loadState, loading, dim, voxels, buffer, indices,
                   positions, normals, tex_coords, ao, finalao, capacity, printed,
                   emitted, setupRuns, camera>>

\* Lines 196-246: ao_convert, the mesh attributes, the entities and the camera.
Finish ==
    /\ pc = "finish"
    /\ capacity' = num_quads(buffer) * 4
    /\ finalao' = ao_convert(ao, num_quads(buffer) * 4)
    /\ camera' = "spawned"
    /\ pc' = "update"
    /\ UNCHANGED <<state, loadState, loading, dim, voxels, buffer, g, q, indices,
                   positions, normals, tex_coords, ao, printed, emitted, setupRuns>>

(***************************************************************************)
(* main, load_assets, check_loaded, camera_rotation_system (src/main.rs)   *)
(***************************************************************************)
\* A plausible slip: any finished load, failed or not, counts as loaded.
IsLoadedOrFailed(ls) == ls = "Loaded" \/ ls = "Failed"

\* if let LoadState::Loaded = asset_server.get_load_state(&handle.0)
IsLoaded(ls) == ls = "Loaded"

\* on_enter(AppState::Loading): load_assets
LoadAssets ==
    /\ state = "Loading"
    /\ pc = "load_assets"
    /\ loading' = "handle"
    /\ loadState' = "Loading"
    /\ pc' = "check_loaded"
    /\ UNCHANGED <<state, dim, voxels, setupRuns, camera>>
    /\ UNCHANGED meshVars

\* The asset server finishes the load, with the image or with an error.
AssetServerFinishes ==
    /\ loadState = "Loading"
    /\ loadState' \in {"Loaded", "Failed"}
    /\ UNCHANGED <<state, loading, pc, dim, voxels, setupRuns, camera>>
    /\ UNCHANGED meshVars

\* on_update(AppState::Loading): check_loaded, once per frame.  Setting the
\* state runs on_enter(AppState::Run), which is setup.
CheckLoaded ==
    /\ state = "Loading"
    /\ pc = "check_loaded"
    /\ loading = "handle"
    /\ IF IsLoaded(loadState)
       THEN /\ state' = "Run"
            /\ pc' = "setup"
       ELSE UNCHANGED <<state, pc>>
    /\ UNCHANGED <<loadState, loading, dim, voxels, setupRuns, camera>>
    /\ UNCHANGED meshVars

\* on_update(AppState::Run): camera_rotation_system, once per frame
CameraRotation ==
    /\ state = "Run"
    /\ pc = "update"
    /\ camera # "none"
    /\ camera' = "orbit"
    /\ UNCHANGED <<state, loadState, loading, pc, dim, voxels, setupRuns>>
    /\ UNCHANGED meshVars

(***************************************************************************)
(* Specifications                                                          *)
(***************************************************************************)
\* The application as main builds it.
Init ==
    /\ state = "Loading"
    /\ loadState = "NotLoaded"
    /\ loading = "none"
    /\ pc = "load_assets"
    /\ dim \in Dims
    /\ voxels = AllEmpty(dim)
    /\ setupRuns = 0
    /\ camera = "none"
    /\ EmptyMesh

Next ==
    \/ LoadAssets
    \/ AssetServerFinishes
    \/ CheckLoaded
    \/ Generate
    \/ VisibleBlockFaces
    \/ EmitQuad
    \/ NextGroup
    \/ Finish
    \/ CameraRotation

Spec == Init /\ [][Next]_vars

\* The meshing pass of setup on an arbitrary grid with an Empty border:
\* at most MaxFilled interior voxels are non-Empty, with types 1..MaxType.
InitMesh ==
    /\ state = "Run"
    /\ loadState = "Loaded"
    /\ loading = "handle"
    /\ pc = "faces"
    /\ dim \in Dims
    /\ \E cells \in SUBSET InteriorIdx(dim) :
          /\ Cardinality(cells) <= MaxFilled
          /\ \E f \in [cells -> 1..MaxType] : voxels = GridOf(dim, cells, f)
    /\ setupRuns = 1
    /\ camera = "none"
    /\ EmptyMesh

NextMesh ==
    \/ VisibleBlockFaces
    \/ EmitQuad
    \/ NextGroup
    \/ Finish

SpecMesh == InitMesh /\ [][NextMesh]_vars

\* ao_convert on its own.  The sample vector is any sequence of at most
\* MaxAoLen samples over 0..4 in which one position may hold any byte.
KnownSamples == 0..4

AoInputs ==
    UNION {[1..n -> KnownSamples] : n \in 0..MaxAoLen}

InitAo ==
    /\ state = "Run"
    /\ loadState = "Loaded"
    /\ loading = "handle"
    /\ pc = "ao_call"
    /\ dim \in {3}
    /\ voxels = AllEmpty(dim)
    /\ setupRuns = 1
    /\ camera = "none"
    /\ buffer = [f \in 1..6 |-> <<>>]
    /\ g = 1
    /\ q = 1
    /\ indices = <<>>
    /\ positions = <<>>
    /\ normals = <<>>
    /\ tex_coords = <<>>
    /\ \E base \in AoInputs :
          \/ ao = base
          \/ \E i \in 1..Len(base), b \in 0..U8Max : ao = [base EXCEPT ![i] = b]
    /\ finalao = <<>>
    /\ capacity = 0
    /\ printed = 0
    /\ emitted = <<>>

\* let finalao = ao_convert(ao, num_vertices), for any num_vertices
AoConvertCall ==
    /\ pc = "ao_call"
    /\ \E n \in 0..MaxCap :
          /\ capacity' = n
          /\ finalao' = ao_convert(ao, n)
    /\ pc' = "ao_done"
    /\ UNCHANGED <<state, loadState, loading, dim, voxels, buffer, g, q, indices,
                   positions, normals, tex_coords, ao, printed, emitted, setupRuns,
                   camera>>

NextAo == AoConvertCall

SpecAo == InitAo /\ [][NextAo]_vars

(***************************************************************************)
(* Properties                                                              *)
(***************************************************************************)
\* The buffer has been filled by visible_block_faces.
BufferFilled == pc \in {"quads", "finish", "update"}

\* The quad loop and the rest of setup have finished.
SetupDone == pc = "update"

\* The voxel type read at the minimum corner of the k-th emitted quad.
TypeOf(k) == voxels[Linearize(emitted[k].minimum, dim)]

\* The four entries quad k (1-based) owns in a per-vertex sequence.
Block4(s, k) == SubSeq(s, 4 * k - 3, 4 * k)

\* n/16 as a numerator over texture_size.
Sixteenths(n) == (n * texture_size) \div 16

Type1Square ==
    << <<Sixteenths(9), Sixteenths(9)>>, <<Sixteenths(10), Sixteenths(9)>>,
       <<Sixteenths(9), Sixteenths(10)>>, <<Sixteenths(10), Sixteenths(10)>> >>

Type2Square ==
    << <<Sixteenths(15), Sixteenths(15)>>, <<Sixteenths(16), Sixteenths(15)>>,
       <<Sixteenths(15), Sixteenths(16)>>, <<Sixteenths(16), Sixteenths(16)>> >>

\* The voxel and its neighbour in the direction of face f, for a quad.
QuadVoxel(quad) == VoxelAt(voxels, dim, quad.minimum)
QuadNeighbour(f, quad) == VoxelAt(voxels, dim, Add3(quad.minimum, signed_normal(faces[f])))

C2_SixIndicesFourVerticesPerQuad ==
    LET n == Len(emitted)
    IN  /\ Len(indices) = 6 * n
        /\ Len(positions) = 4 * n
        /\ Len(normals) = 4 * n
        /\ Len(tex_coords) = 4 * n
        /\ Len(ao) = 4 * n
        /\ SetupDone =>
              /\ n = num_quads(buffer)
              /\ Len(finalao) = 4 * n

\* C2 witness: setup done on a grid that gave several quads.
C2_Witness ==
    /\ SetupDone
    /\ num_quads(buffer) >= 10
    /\ Len(finalao) = 4 * num_quads(buffer)

\* C3: the four UV entries of every emitted quad whose voxel has type 1 are
\* (9/16,9/16), (10/16,9/16), (9/16,10/16), (10/16,10/16), and (15/16,15/16),
\* (16/16,15/16), (15/16,16/16), (16/16,16/16) for type 2, whatever the face
\* and the position.
C3_UvSquareByType ==
    \A k \in 1..Len(emitted) :
        /\ TypeOf(k) = 1 => Block4(tex_coords, k) = Type1Square
        /\ TypeOf(k) = 2 => Block4(tex_coords, k) = Type2Square

\* C3 witness: setup done with a type-1 and a type-2 quad on each of two
\* different faces.
C3_Witness ==
    /\ SetupDone
    /\ \E a, b \in 1..Len(emitted) :
          /\ TypeOf(a) = 1
          /\ TypeOf(b) = 2
          /\ emitted[a].face # emitted[b].face
          /\ emitted[a].minimum # emitted[b].minimum

\* The colour the claim gives for one AO sample, channels in hundredths.
C4_Colour(value) ==
    CASE value = 0 -> <<10, 10, 10, 100>>
      [] value = 1 -> <<30, 30, 30, 100>>
      [] value = 2 -> <<50, 50, 50, 100>>
      [] value = 3 -> <<75, 75, 75, 100>>
      [] value \in 4..U8Max -> <<100, 100, 100, 100>>

\* C4: ao_convert returns, position by position and in input order, the
\* fixed colour of each sample (0, 1, 2, 3 and every other byte), and as
\* many colours as samples whatever num_vertices is.
C4_AoColourTable ==
    pc = "ao_done" =>
        /\ Len(finalao) = Len(ao)
        /\ \A i \in 1..Len(ao) : finalao[i] = C4_Colour(ao[i])

\* C4 witness: a conversion of more samples than num_vertices, with a byte
\* above 3 in it.
C4_Witness ==
    /\ pc = "ao_done"
    /\ Len(ao) > capacity
    /\ \E i, j \in 1..Len(ao) : ao[i] = U8Max /\ ao[j] = 3 /\ i < j

\* The quads of a grid in the order the claim gives: by face orientation
\* first, and inside a face in the order the library visits the interior.
C5_Order(vx, d) ==
    LET groups == visible_block_faces(vx, d)
    IN  Flatten([f \in 1..6 |->
                    [k \in 1..Len(groups[f]) |->
                        [face |-> f, minimum |-> groups[f][k].minimum]]])

\* C5: the finished mesh is a function of the grid alone: its quads are
\* those of the grid ordered by face and then by the library's emission
\* order, and the position, normal, UV, colour and index sequences are the
\* per-quad values of that list laid end to end, quad k based at vertex 4k.
C5_MeshIsFunctionOfGrid ==
    SetupDone =>
        LET order == C5_Order(voxels, dim)
            n == Len(order)
            face(k) == faces[order[k].face]
            quad(k) == UnitQuad(order[k].minimum)
            uv(k) == face_tex_for(VoxelAt(voxels, dim, order[k].minimum),
                                  lib_tex_coords(face(k), u_flip_face, TRUE, texture_size))
        IN  /\ emitted = order
            /\ positions = Flatten([k \in 1..n |-> quad_mesh_positions(face(k), quad(k))])
            /\ normals = Flatten([k \in 1..n |-> quad_mesh_normals(face(k))])
            /\ tex_coords = Flatten([k \in 1..n |-> uv(k)])
            /\ indices = Flatten([k \in 1..n |-> quad_mesh_indices(face(k), 4 * (k - 1))])
            /\ finalao = Flatten([k \in 1..n |->
                            [j \in 1..4 |->
                                ao_colour(quad_mesh_ao(face(k), quad(k), voxels, dim)[j])]])

\* C5 witness: a finished mesh with quads on at least three faces and two
\* quads on one face.
C5_Witness ==
    /\ SetupDone
    /\ Cardinality({emitted[k].face : k \in 1..Len(emitted)}) >= 3
    /\ \E f \in 1..6 : Len(buffer[f]) >= 2

\* C6: a 3x3x3 grid whose centre voxel (1,1,1) has type 1, the other 26
\* being Empty, gives 6 quads, one per face, 24 vertices, 36 indices, and
\* the type-1 UV square on all 6 quads.
C6_SingleCentreVoxel ==
    (SetupDone /\ dim = 3 /\ VoxelAt(voxels, dim, <<1, 1, 1>>) = 1) =>
        /\ num_quads(buffer) = 6
        /\ \A f \in 1..6 : Len(buffer[f]) = 1
        /\ Len(emitted) = 6
        /\ Len(positions) = 24
        /\ Len(indices) = 36
        /\ \A k \in 1..6 : Block4(tex_coords, k) = Type1Square

\* C6 witness: setup done on that grid.
C6_Witness ==
    /\ SetupDone
    /\ dim = 3
    /\ VoxelAt(voxels, dim, <<1, 1, 1>>) = 1
    /\ Cardinality({i \in DOMAIN voxels : voxels[i] = 0}) = 26

\* C7: the k-th emitted quad (0-based) owns vertices 4k..4k+3 and index
\* entries 6k..6k+5, each of those six index values lies in 4k..4k+3, and
\* so every index is below the number of vertices.
C7_IndicesStayInOwnQuad ==
    /\ Len(positions) = 4 * Len(emitted)
    /\ Len(indices) = 6 * Len(emitted)
    /\ \A k \in 0..(Len(emitted) - 1) : \A j \in 1..6 :
          /\ indices[6 * k + j] \in (4 * k)..(4 * k + 3)
          /\ indices[6 * k + j] < Len(positions)

\* C7 witness: at least three quads emitted, the loop still running.
C7_Witness ==
    /\ pc = "quads"
    /\ Len(emitted) >= 3
    /\ indices[6 * 2 + 1] = 4 * 2

\* C8: with the demo's generator (interior voxels drawn from {0,1,2}, the
\* border left at 0) the fallback arm of the UV match is never taken: every
\* emitted quad's voxel has type 1 or 2 and nothing is printed.
C8_FallbackUnreachable ==
    /\ printed = 0
    /\ \A k \in 1..Len(emitted) : TypeOf(k) \in {1, 2}

\* C8 witness: setup done on a generated grid with quads of both types.
C8_Witness ==
    /\ SetupDone
    /\ setupRuns = 1
    /\ \E a, b \in 1..Len(emitted) : TypeOf(a) = 1 /\ TypeOf(b) = 2

\* C9: a quad whose voxel type is outside {1,2} only adds one diagnostic
\* line: its 4 positions, 4 normals, 4 AO samples, 6 indices and 4 UV
\* entries are appended like any other quad's, its UV entries are what the
\* library's tex_coords returned, and the quads of type 1 or 2 before and
\* after it keep their own squares.
C9_FallbackKeepsLibraryUv ==
    LET n == Len(emitted)
        fallback == {k \in 1..n : TypeOf(k) \notin {1, 2}}
    IN  /\ printed = Cardinality(fallback)
        /\ Len(positions) = 4 * n /\ Len(normals) = 4 * n /\ Len(ao) = 4 * n
        /\ Len(indices) = 6 * n /\ Len(tex_coords) = 4 * n
        /\ \A k \in 1..n :
              LET face == faces[emitted[k].face]
              IN  /\ Block4(positions, k) =
                         quad_mesh_positions(face, UnitQuad(emitted[k].minimum))
                  /\ k \in fallback =>
                         Block4(tex_coords, k) =
                             lib_tex_coords(face, u_flip_face, TRUE, texture_size)
                  /\ TypeOf(k) = 1 => Block4(tex_coords, k) = TileSquare(10)
                  /\ TypeOf(k) = 2 => Block4(tex_coords, k) = TileSquare(16)

\* C9 witness: setup done with a quad of type 3 emitted between a quad of
\* type 1 and a quad of type 2.
C9_Witness ==
    /\ SetupDone
    /\ printed > 0
    /\ \E a, b, c \in 1..Len(emitted) :
          /\ a < b /\ b < c
          /\ TypeOf(a) \in {1, 2}
          /\ TypeOf(b) >= 3
          /\ TypeOf(c) \in {1, 2}

\* setup has started, or is about to.
InSetup == pc \in {"setup", "faces", "quads", "finish", "update"}

\* C10: the application starts in Loading; the state changes to Run only
\* in a step where the polled load state is Loaded, so setup never runs
\* before the texture is loaded; while the load state is never Loaded the
\* application stays in Loading and setup does not run; Run is never left,
\* and setup runs at most once.
C10_RunOnlyAfterLoaded ==
    /\ state = "Loading" /\ setupRuns = 0
    /\ [][(state = "Loading" /\ state' = "Run") => loadState = "Loaded"]_vars
    /\ []((InSetup \/ setupRuns > 0) => (state = "Run" /\ loadState = "Loaded"))
    /\ []((state = "Loading") => (setupRuns = 0 /\ ~InSetup))
    /\ []((loadState # "Loaded") => state = "Loading")
    /\ [][state = "Run" => state' = "Run"]_vars
    /\ [][setupRuns' > setupRuns => (setupRuns = 0 /\ pc = "setup")]_vars
    /\ [](setupRuns <= 1)

\* C10 witness: the application in Run, setup done once, the camera moving.
C10_Witness ==
    /\ state = "Run"
    /\ SetupDone
    /\ setupRuns = 1
    /\ camera = "orbit"

====
